---- MODULE Spec2Model ----
(***************************************************************************)
(* A model of the URL discovery and page-processing pipeline of the        *)
(* llms.txt generator: categorize_urls, extract_urls_from_sitemap,         *)
(* process_url, process_urls_parallel (src/content_extractor.py) and       *)
(* RobotsChecker.check_crawler_access.                                     *)
(*                                                                         *)
(* Text is modelled as a sequence of one-character strings, so that        *)
(* lower-casing, substring search, strip and split are computed as the     *)
(* code computes them.  A Python dict is a sequence of [key, val] records  *)
(* in insertion order.                                                     *)
(***************************************************************************)
EXTENDS Integers, Sequences, FiniteSets, TLC

VARIABLES cat, sm, rb, pu, pipe, vm

vars == <<cat, sm, rb, pu, pipe, vm>>

\* ------------------------------------------------------------------ text

UpperChars ==
  <<"A", "B", "C", "D", "E", "F", "G", "H", "I", "J", "K", "L", "M",
    "N", "O", "P", "Q", "R", "S", "T", "U", "V", "W", "X", "Y", "Z">>

LowerChars ==
  <<"a", "b", "c", "d", "e", "f", "g", "h", "i", "j", "k", "l", "m",
    "n", "o", "p", "q", "r", "s", "t", "u", "v", "w", "x", "y", "z">>

\* str.lower() on one character
LowerChar(c) ==
  IF \E i \in 1..Len(UpperChars) : UpperChars[i] = c
    THEN LowerChars[CHOOSE i \in 1..Len(UpperChars) : UpperChars[i] = c]
    ELSE c

\* str.lower()
Lower(s) == [i \in 1..Len(s) |-> LowerChar(s[i])]

\* the Python test `kw in s` on strings
Contains(kw, s) ==
  \E i \in 0..(Len(s) - Len(kw)) : SubSeq(s, i + 1, i + Len(kw)) = kw

\* number of occurrences of x in the list s
Count(x, s) == Cardinality({i \in 1..Len(s) : s[i] = x})

\* the lists over S of length at most n
BSeq(S, n) == UNION {[1..k -> S] : k \in 0..n}

\* ------------------------------------------------------- configuration

CATEGORY_KEYWORDS ==
  <<
    [category |-> "Introduction", keywords |-> <<
        <<"a", "b", "o", "u", "t">>,
        <<"i", "n", "t", "r", "o">>,
        <<"i", "n", "t", "r", "o", "d", "u", "c", "t", "i", "o", "n">>,
        <<"o", "v", "e", "r", "v", "i", "e", "w">>,
        <<"w", "e", "l", "c", "o", "m", "e">>,
        <<"h", "o", "m", "e">>,
        <<"g", "e", "t", "t", "i", "n", "g", "-", "s", "t", "a", "r", "t", "e", "d">>,
        <<"s", "t", "a", "r", "t">>,
        <<"b", "e", "g", "i", "n">>,
        <<"w", "h", "a", "t", "-", "i", "s">>,
        <<"w", "h", "y">> >>],
    [category |-> "Get started", keywords |-> <<
        <<"q", "u", "i", "c", "k", "s", "t", "a", "r", "t">>,
        <<"q", "u", "i", "c", "k", "-", "s", "t", "a", "r", "t">>,
        <<"s", "e", "t", "u", "p">>,
        <<"i", "n", "s", "t", "a", "l", "l">>,
        <<"i", "n", "s", "t", "a", "l", "l", "a", "t", "i", "o", "n">>,
        <<"t", "u", "t", "o", "r", "i", "a", "l">>,
        <<"f", "i", "r", "s", "t", "-", "s", "t", "e", "p", "s">>,
        <<"o", "n", "b", "o", "a", "r", "d", "i", "n", "g">>,
        <<"g", "u", "i", "d", "e">>,
        <<"h", "o", "w", "-", "t", "o">> >>],
    [category |-> "API Reference", keywords |-> <<
        <<"a", "p", "i">>,
        <<"r", "e", "f", "e", "r", "e", "n", "c", "e">>,
        <<"d", "o", "c", "s">>,
        <<"d", "o", "c", "u", "m", "e", "n", "t", "a", "t", "i", "o", "n">>,
        <<"e", "n", "d", "p", "o", "i", "n", "t", "s">>,
        <<"m", "e", "t", "h", "o", "d", "s">>,
        <<"f", "u", "n", "c", "t", "i", "o", "n", "s">>,
        <<"s", "d", "k">>,
        <<"r", "e", "s", "t">>,
        <<"g", "r", "a", "p", "h", "q", "l">> >>],
    [category |-> "Guides", keywords |-> <<
        <<"g", "u", "i", "d", "e">>,
        <<"t", "u", "t", "o", "r", "i", "a", "l">>,
        <<"h", "o", "w", "-", "t", "o">>,
        <<"e", "x", "a", "m", "p", "l", "e">>,
        <<"e", "x", "a", "m", "p", "l", "e", "s">>,
        <<"w", "a", "l", "k", "t", "h", "r", "o", "u", "g", "h">>,
        <<"s", "t", "e", "p", "-", "b", "y", "-", "s", "t", "e", "p">>,
        <<"l", "e", "a", "r", "n">>,
        <<"t", "r", "a", "i", "n", "i", "n", "g">> >>],
    [category |-> "Resources", keywords |-> <<
        <<"r", "e", "s", "o", "u", "r", "c", "e", "s">>,
        <<"t", "o", "o", "l", "s">>,
        <<"u", "t", "i", "l", "i", "t", "i", "e", "s">>,
        <<"d", "o", "w", "n", "l", "o", "a", "d", "s">>,
        <<"a", "s", "s", "e", "t", "s">>,
        <<"t", "e", "m", "p", "l", "a", "t", "e", "s">>,
        <<"s", "a", "m", "p", "l", "e", "s">>,
        <<"c", "o", "m", "m", "u", "n", "i", "t", "y">>,
        <<"s", "u", "p", "p", "o", "r", "t">> >>]
  >>

\* ------------------------------------------------------------ test URLs

U_About ==
  <<"h", "t", "t", "p", "s", ":", "/", "/", "a", ".", "i", "o", "/", "a", "b", "o", "u", "t">>
U_Quickstart ==
  <<"h", "t", "t", "p", "s", ":", "/", "/", "a", ".", "i", "o", "/", "q", "u", "i", "c", "k", "s", "t", "a", "r", "t">>
U_Guide ==
  <<"h", "t", "t", "p", "s", ":", "/", "/", "a", ".", "i", "o", "/", "u", "s", "e", "r", "-", "g", "u", "i", "d", "e", "/">>
U_API ==
  <<"h", "t", "t", "p", "s", ":", "/", "/", "a", ".", "i", "o", "/", "A", "P", "I">>
U_Examples ==
  <<"h", "t", "t", "p", "s", ":", "/", "/", "a", ".", "i", "o", "/", "e", "x", "a", "m", "p", "l", "e", "s">>
U_Tools ==
  <<"h", "t", "t", "p", "s", ":", "/", "/", "a", ".", "i", "o", "/", "t", "o", "o", "l", "s">>
U_X ==
  <<"h", "t", "t", "p", "s", ":", "/", "/", "a", ".", "i", "o", "/", "x">>
U_DocsX ==
  <<"h", "t", "t", "p", ":", "/", "/", "d", "o", "c", "s", ".", "i", "o", "/", "x">>
\* a sitemap entry that is no URL
T_NotUrl ==
  <<"n", "/", "a">>

U_Root ==
  <<"h", "t", "t", "p", "s", ":", "/", "/", "a", ".", "i", "o">>

\* a URL with an empty path that matches a keyword ("docs") in its host
U_DocsRoot ==
  <<"h", "t", "t", "p", "s", ":", "/", "/", "d", "o", "c", "s", ".", "i", "o">>

UrlPool ==
  {U_About, U_Quickstart, U_Guide, U_API, U_Examples, U_Tools, U_X, U_DocsX, U_Root}

\* longest URL list handed to categorize_urls
MaxCatUrls == 3

\* ------------------------------------------------------ categorize_urls

\* DictAppend putting x at the front of the list
DictAppend_Prepend(d, k, x) ==
  [i \in 1..Len(d) |->
     IF d[i].key = k THEN [key |-> k, val |-> <<x>> \o d[i].val] ELSE d[i]]

\* dict[k].append(x)
DictAppend(d, k, x) ==
  [i \in 1..Len(d) |->
     IF d[i].key = k THEN [key |-> k, val |-> Append(d[i].val, x)] ELSE d[i]]

\* k in dict
HasKey(d, k) == \E i \in 1..Len(d) : d[i].key = k

\* dict[k]
DictGet(d, k) == d[CHOOSE i \in 1..Len(d) : d[i].key = k].val

\* the values of the dict, concatenated in key order
RECURSIVE DictFlatten(_)
DictFlatten(d) ==
  IF d = <<>> THEN <<>> ELSE Head(d).val \o DictFlatten(Tail(d))

\* categorized = {category: [] for category in CATEGORY_KEYWORDS.keys()};
\* categorized["Other"] = []
EmptyCategorized ==
  [i \in 1..(Len(CATEGORY_KEYWORDS) + 1) |->
     [key |-> IF i <= Len(CATEGORY_KEYWORDS)
                THEN CATEGORY_KEYWORDS[i].category ELSE "Other",
      val |-> <<>>]]

\* any(keyword in url_lower for keyword in keywords), for the j-th category
MatchesCategory(j, url_lower) ==
  \E n \in 1..Len(CATEGORY_KEYWORDS[j].keywords) :
     Contains(CATEGORY_KEYWORDS[j].keywords[n], url_lower)

\* the inner for loop with its break: the index of the category the loop
\* stops at, 0 when it runs to the end (categorized_flag stays False)
RECURSIVE FirstMatch(_, _)
FirstMatch(j, url_lower) ==
  IF j > Len(CATEGORY_KEYWORDS) THEN 0
  ELSE IF MatchesCategory(j, url_lower) THEN j
  ELSE FirstMatch(j + 1, url_lower)

\* CategorizeOne without the break: the URL is appended to every category
\* with a matching keyword
CategorizeOne_NoBreak(categorized, url) ==
  LET hits == {j \in 1..Len(CATEGORY_KEYWORDS) : MatchesCategory(j, Lower(url))}
  IN  IF hits = {} THEN DictAppend(categorized, "Other", url)
      ELSE [i \in 1..Len(categorized) |->
              IF \E j \in hits : CATEGORY_KEYWORDS[j].category = categorized[i].key
                THEN [key |-> categorized[i].key, val |-> Append(categorized[i].val, url)]
                ELSE categorized[i]]

\* CategorizeOne matching the keywords against the URL as given, not lower-cased
CategorizeOne_NoLower(categorized, url) ==
  LET j == FirstMatch(1, url)
  IN  IF j # 0
        THEN DictAppend(categorized, CATEGORY_KEYWORDS[j].category, url)
        ELSE DictAppend(categorized, "Other", url)

\* one iteration of the outer loop, on url
CategorizeOne(categorized, url) ==
  LET j == FirstMatch(1, Lower(url))
  IN  IF j # 0
        THEN DictAppend(categorized, CATEGORY_KEYWORDS[j].category, url)
        ELSE DictAppend(categorized, "Other", url)

\* RemoveEmpty that returns the dict as it is
RemoveEmpty_KeepAll(categorized) == categorized

\* return {k: v for k, v in categorized.items() if v}
RemoveEmpty(categorized) == SelectSeq(categorized, LAMBDA e : e.val # <<>>)

RECURSIVE CategorizeFrom(_, _, _)
CategorizeFrom(categorized, urls, i) ==
  IF i > Len(urls) THEN categorized
  ELSE CategorizeFrom(CategorizeOne(categorized, urls[i]), urls, i + 1)

\* categorize_urls as one call
categorize_urls(urls) == RemoveEmpty(CategorizeFrom(EmptyCategorized, urls, 1))

CatIdle ==
  [pc |-> "idle", urls |-> <<>>, i |-> 0, categorized |-> <<>>, result |-> <<>>]

CatStart ==
  \E urls \in BSeq(UrlPool, MaxCatUrls) :
     cat = [pc |-> "loop", urls |-> urls, i |-> 1,
            categorized |-> EmptyCategorized, result |-> <<>>]

\* for url in urls: ...
CatLoop ==
  /\ cat.pc = "loop"
  /\ cat.i <= Len(cat.urls)
  /\ cat' = [cat EXCEPT !.categorized = CategorizeOne(cat.categorized, cat.urls[cat.i]),
                        !.i = cat.i + 1]
  /\ UNCHANGED <<sm, rb, pu, pipe, vm>>

\* the loop is over: drop the empty categories and return
CatReturn ==
  /\ cat.pc = "loop"
  /\ cat.i > Len(cat.urls)
  /\ cat' = [cat EXCEPT !.pc = "done", !.result = RemoveEmpty(cat.categorized)]
  /\ UNCHANGED <<sm, rb, pu, pipe, vm>>


\* ------------------------------------------- extract_urls_from_sitemap

\* the sitemap URLs of the modelled site; the first is the one resolved
SitemapUrls == {"s1", "s2", "s3"}

RootSitemap == "s1"

\* the <url><loc> texts of a leaf document, in document order (<<>> is an
\* empty <loc/>)
LeafDocs ==
  {<<>>, <<U_About>>, <<U_About, <<>>, U_X>>, <<U_X, T_NotUrl, U_About>>}

\* the <sitemap><loc> texts of an index document: the lists of distinct
\* sitemap URLs
ChildLists ==
  {c \in UNION {[1..k -> SitemapUrls] : k \in 1..Cardinality(SitemapUrls)} :
     \A i, j \in 1..Len(c) : c[i] = c[j] => i = j}
    \cup {<<"s2", "s3", "s2">>, <<"s3", "s2", "s3">>}

\* what fetching and parsing a sitemap URL gives: a failure (network error,
\* HTTP error status, unparseable XML) or the document's two lists of locs
SitemapDocs ==
  {[ok |-> FALSE, sitemaps |-> <<>>, urls |-> <<>>]}
    \cup {[ok |-> TRUE, sitemaps |-> <<>>, urls |-> l] : l \in LeafDocs}
    \cup {[ok |-> TRUE, sitemaps |-> c, urls |-> <<>>] : c \in ChildLists}
    \cup {[ok |-> TRUE, sitemaps |-> c, urls |-> <<U_X>>] :
            c \in {d \in ChildLists : Len(d) = 1}}

\* the deepest nesting of calls the interpreter allows: a call nested deeper
\* fails with RecursionError, an Exception like any other
RecursionLimit == 3

\* urls = [url.text for url in url_elements if url.text]
NonEmptyLocs(locs) == SelectSeq(locs, LAMBDA x : x # <<>>)

\* the frame of a call that has just started
SitemapFrame(sitemap_url) ==
  [url |-> sitemap_url, fetched |-> FALSE, sitemaps |-> <<>>, i |-> 0, urls |-> <<>>]

\* SitemapReturn with `urls = nested_urls` in place of urls.extend(nested_urls)
SitemapReturn_Assign(s, urls) ==
  LET n == Len(s.stack)
  IN  IF n = 1
        THEN [s EXCEPT !.pc = "done", !.stack = <<>>, !.result = urls]
        ELSE [s EXCEPT !.stack =
                [k \in 1..(n - 1) |->
                   IF k = n - 1
                     THEN [s.stack[k] EXCEPT !.urls = urls, !.i = s.stack[k].i + 1]
                     ELSE s.stack[k]]]

\* `return urls` of the innermost call: the caller extends its list with
\* the returned one and moves to its next child; the outermost call ends
SitemapReturn(s, urls) ==
  LET n == Len(s.stack)
  IN  IF n = 1
        THEN [s EXCEPT !.pc = "done", !.stack = <<>>, !.result = urls]
        ELSE [s EXCEPT !.stack =
                [k \in 1..(n - 1) |->
                   IF k = n - 1
                     THEN [s.stack[k] EXCEPT !.urls = s.stack[k].urls \o urls,
                                             !.i = s.stack[k].i + 1]
                     ELSE s.stack[k]]]

\* SitemapExcept without the try/except: the error leaves every call and the
\* resolution ends with nothing
SitemapExcept_Abort(s) == [s EXCEPT !.pc = "done", !.stack = <<>>, !.result = <<>>]

\* the except clause: the error is printed and the call returns its urls,
\* still empty when the fetch or the parse failed
SitemapExcept(s) == SitemapReturn(s, s.stack[Len(s.stack)].urls)

\* the try block of the innermost call up to the loop over the children
SitemapFetch(s) ==
  LET n   == Len(s.stack)
      f   == s.stack[n]
      doc == s.world[f.url]
  IN  IF n > RecursionLimit \/ ~doc.ok
        THEN SitemapExcept(s)
      ELSE IF doc.sitemaps # <<>>
        THEN [s EXCEPT !.stack[n] =
                [f EXCEPT !.fetched = TRUE, !.sitemaps = doc.sitemaps, !.i = 1]]
      ELSE SitemapReturn(s, NonEmptyLocs(doc.urls))

SmIdle == [pc |-> "idle", world |-> <<>>, stack |-> <<>>, result |-> <<>>]

SmStart ==
  \E world \in [SitemapUrls -> SitemapDocs] :
     sm = [pc |-> "run", world |-> world,
           stack |-> <<SitemapFrame(RootSitemap)>>, result |-> <<>>]

\* response = self.session.get(...); root = ET.fromstring(...); findall
SmFetch ==
  /\ sm.pc = "run"
  /\ ~sm.stack[Len(sm.stack)].fetched
  /\ sm' = SitemapFetch(sm)
  /\ UNCHANGED <<cat, rb, pu, pipe, vm>>

\* nested_urls = self.extract_urls_from_sitemap(sitemap.text)
SmRecurse ==
  /\ sm.pc = "run"
  /\ LET f == sm.stack[Len(sm.stack)]
     IN  /\ f.fetched
         /\ f.i <= Len(f.sitemaps)
         /\ sm' = [sm EXCEPT !.stack = Append(sm.stack, SitemapFrame(f.sitemaps[f.i]))]
  /\ UNCHANGED <<cat, rb, pu, pipe, vm>>

\* the loop over the children is over: return urls
SmLoopEnd ==
  /\ sm.pc = "run"
  /\ LET f == sm.stack[Len(sm.stack)]
     IN  /\ f.fetched
         /\ f.i > Len(f.sitemaps)
         /\ sm' = SitemapReturn(sm, f.urls)
  /\ UNCHANGED <<cat, rb, pu, pipe, vm>>

\* ------------------------------------- RobotsChecker.check_crawler_access

Whitespace == {" ", "\t", "\r"}

RECURSIVE LStrip(_)
LStrip(s) ==
  IF s # <<>> /\ Head(s) \in Whitespace THEN LStrip(Tail(s)) ELSE s

RECURSIVE RStrip(_)
RStrip(s) ==
  IF s # <<>> /\ s[Len(s)] \in Whitespace
    THEN RStrip(SubSeq(s, 1, Len(s) - 1)) ELSE s

\* str.strip()
Strip(s) == RStrip(LStrip(s))

\* str.startswith(p)
StartsWith(s, p) == Len(s) >= Len(p) /\ SubSeq(s, 1, Len(p)) = p

\* s.split(c, 1)[1], for s holding c
AfterFirst(s, c) ==
  LET i == CHOOSE k \in 1..Len(s) : s[k] = c /\ \A n \in 1..(k - 1) : s[n] # c
  IN  SubSeq(s, i + 1, Len(s))

\* x in list
InList(x, list) == \E i \in 1..Len(list) : list[i] = x

T_UserAgent ==
  <<"u", "s", "e", "r", "-", "a", "g", "e", "n", "t", ":">>

T_Disallow ==
  <<"d", "i", "s", "a", "l", "l", "o", "w", ":">>

S_GPTBot ==
  <<"G", "P", "T", "B", "o", "t">>

S_ClaudeBot ==
  <<"C", "l", "a", "u", "d", "e", "B", "o", "t">>

S_BingBot ==
  <<"b", "i", "n", "g", "b", "o", "t">>

\* the lines a robots.txt is made of: "User-agent: *", "user-agent:GPTBot",
\* "User-Agent: ClaudeBot ", "User-agent: bingbot", " Disallow: /",
\* "Disallow: /x", "disallow:", "# Disallow: /", "User-agent: gptbot"
L_AgentAll ==
  <<"U", "s", "e", "r", "-", "a", "g", "e", "n", "t", ":", " ", "*">>

L_AgentGPT ==
  <<"u", "s", "e", "r", "-", "a", "g", "e", "n", "t", ":", "G", "P", "T", "B", "o", "t">>

L_AgentClaude ==
  <<"U", "s", "e", "r", "-", "A", "g", "e", "n", "t", ":", " ", "C", "l", "a", "u", "d", "e", "B", "o", "t", " ">>

L_AgentBing ==
  <<"U", "s", "e", "r", "-", "a", "g", "e", "n", "t", ":", " ", "b", "i", "n", "g", "b", "o", "t">>

L_DisallowAll ==
  <<" ", "D", "i", "s", "a", "l", "l", "o", "w", ":", " ", "/">>

L_DisallowDir ==
  <<"D", "i", "s", "a", "l", "l", "o", "w", ":", " ", "/", "x">>

L_DisallowNone ==
  <<"d", "i", "s", "a", "l", "l", "o", "w", ":">>

L_Comment ==
  <<"#", " ", "D", "i", "s", "a", "l", "l", "o", "w", ":", " ", "/">>

L_AgentGptLower ==
  <<"U", "s", "e", "r", "-", "a", "g", "e", "n", "t", ":", " ", "g", "p", "t", "b", "o", "t">>

LinePool ==
  {L_AgentAll, L_AgentGPT, L_AgentClaude, L_AgentBing, L_AgentGptLower,
   L_DisallowAll, L_DisallowDir, L_DisallowNone, L_Comment}

\* longest robots.txt, in lines
MaxLines == 3

\* longest list of crawlers asked about
MaxCrawlers == 2

CrawlerPool == {S_GPTBot, S_ClaudeBot}

\* what requests.get gives: an exception, or a response with its status and
\* its text (as the list text.split('\n'))
RobotsResponses ==
  {[kind |-> "exception", status_code |-> 0, lines |-> <<>>]}
    \cup {[kind |-> "response", status_code |-> c, lines |-> <<L_AgentAll, L_DisallowAll>>] :
            c \in {404, 403, 500}}
    \cup {[kind |-> "response", status_code |-> 200, lines |-> l] :
            l \in BSeq(LinePool, MaxLines)}

\* BlockCrawlers that takes the wildcard for a crawler name
BlockCrawlers_NoWildcard(blocked_crawlers, current_user_agent, crawlers) ==
  IF ~InList(current_user_agent, blocked_crawlers)
    THEN Append(blocked_crawlers, current_user_agent)
    ELSE blocked_crawlers

\* the complete block: extend with the crawlers not yet listed (the
\* comprehension is evaluated before the extend), or append the agent
BlockCrawlers(blocked_crawlers, current_user_agent, crawlers) ==
  IF current_user_agent = <<"*">>
    THEN blocked_crawlers \o
           SelectSeq(crawlers, LAMBDA c : ~InList(c, blocked_crawlers))
  ELSE IF ~InList(current_user_agent, blocked_crawlers)
    THEN Append(blocked_crawlers, current_user_agent)
  ELSE blocked_crawlers

\* the body of `for line in lines`, on the parser's state st; the agent <<>>
\* stands for None and for the empty name, both false in the elif's test
RobotsLine(st, raw, crawlers) ==
  LET line == Strip(raw)
  IN  IF line = <<>> \/ StartsWith(line, <<"#">>) THEN st
      ELSE IF StartsWith(Lower(line), T_UserAgent)
        THEN [st EXCEPT !.current_user_agent = Strip(AfterFirst(line, ":"))]
      ELSE IF StartsWith(Lower(line), T_Disallow) /\ st.current_user_agent # <<>>
        THEN LET disallow_path == Strip(AfterFirst(line, ":"))
             IN  IF /\ \/ st.current_user_agent = <<"*">>
                       \/ InList(st.current_user_agent, crawlers)
                    /\ disallow_path = <<"/">>
                   THEN [st EXCEPT !.blocked_crawlers =
                           BlockCrawlers(st.blocked_crawlers,
                                         st.current_user_agent, crawlers)]
                   ELSE st
      ELSE st

\* RobotsAccessible without the assignment: accessible keeps its initial True
RobotsAccessible_Stale(blocked_crawlers) == TRUE

\* result['accessible'] = len(result['blocked_crawlers']) == 0
RobotsAccessible(blocked_crawlers) == Len(blocked_crawlers) = 0

\* the result dict as first built
RobotsResult ==
  [accessible |-> TRUE, blocked_crawlers |-> <<>>, robots_content |-> <<>>,
   error |-> "None"]

RbIdle ==
  [pc |-> "idle", crawlers |-> <<>>, response |-> <<>>, i |-> 0,
   current_user_agent |-> <<>>, result |-> RobotsResult]

RbStart ==
  \E crawlers \in BSeq(CrawlerPool, MaxCrawlers), response \in RobotsResponses :
     rb = [pc |-> "fetch", crawlers |-> crawlers, response |-> response, i |-> 0,
           current_user_agent |-> <<>>, result |-> RobotsResult]

\* RbFetch with the status tests left out: any response is parsed
RbFetch_ParseAnyStatus ==
  /\ rb.pc = "fetch"
  /\ rb' =
       IF rb.response.kind = "exception"
         THEN [rb EXCEPT !.pc = "done", !.result.error = "exception"]
       ELSE [rb EXCEPT !.pc = "parse", !.i = 1,
                       !.result.robots_content = rb.response.lines]
  /\ UNCHANGED <<cat, sm, pu, pipe, vm>>

\* requests.get and the status tests
RbFetch ==
  /\ rb.pc = "fetch"
  /\ rb' =
       IF rb.response.kind = "exception"
         THEN [rb EXCEPT !.pc = "done", !.result.error = "exception"]
       ELSE IF rb.response.status_code = 404
         THEN [rb EXCEPT !.pc = "done", !.result.error = "No robots.txt file found"]
       ELSE IF rb.response.status_code # 200
         THEN [rb EXCEPT !.pc = "done", !.result.error = "HTTP error"]
       ELSE [rb EXCEPT !.pc = "parse", !.i = 1,
                       !.result.robots_content = rb.response.lines]
  /\ UNCHANGED <<cat, sm, pu, pipe, vm>>

\* for line in lines: ...
RbLine ==
  /\ rb.pc = "parse"
  /\ rb.i <= Len(rb.response.lines)
  /\ LET st == RobotsLine([current_user_agent |-> rb.current_user_agent,
                           blocked_crawlers |-> rb.result.blocked_crawlers],
                          rb.response.lines[rb.i], rb.crawlers)
     IN  rb' = [rb EXCEPT !.i = rb.i + 1,
                          !.current_user_agent = st.current_user_agent,
                          !.result.blocked_crawlers = st.blocked_crawlers]
  /\ UNCHANGED <<cat, sm, pu, pipe, vm>>

\* the loop is over: set accessible and return
RbFinish ==
  /\ rb.pc = "parse"
  /\ rb.i > Len(rb.response.lines)
  /\ rb' = [rb EXCEPT !.pc = "done",
                      !.result.accessible = RobotsAccessible(rb.result.blocked_crawlers)]
  /\ UNCHANGED <<cat, sm, pu, pipe, vm>>

\* ---------------------------------------------------------- process_url

MAX_RETRIES == 3

MD_EXTENSIONS ==
  <<<<".", "m", "d">>,
    <<"/", "i", "n", "d", "e", "x", ".", "m", "d">>,
    <<"/", "R", "E", "A", "D", "M", "E", ".", "m", "d">>>>

\* ['guide', 'doc', 'api', 'reference']
MdKeywords ==
  <<<<"g", "u", "i", "d", "e">>,
    <<"d", "o", "c">>,
    <<"a", "p", "i">>,
    <<"r", "e", "f", "e", "r", "e", "n", "c", "e">>>>

T_Page ==
  <<"P", "a", "g", "e">>

T_ResourceInformation ==
  <<"R", "e", "s", "o", "u", "r", "c", "e", " ", "i", "n", "f", "o", "r", "m", "a", "t", "i", "o", "n">>

\* the texts of the modelled pages: a title element, a meta description, a
\* completion of the description generator, and main texts whose first
\* sentence has 2, 13 and 28 characters
T_Title ==
  <<" ", "D", "o", "c", "s", " ", "H", "o", "m", "e", " ">>

T_Meta ==
  <<"M", "e", "t", "a", " ", "t", "e", "x", "t">>

T_Generated ==
  <<"G", "e", "n", "e", "r", "a", "t", "e", "d", " ", "t", "e", "x", "t">>

M_Short ==
  <<"H", "i", ".", " ", " ", "M", "o", "r", "e">>

M_Mid ==
  <<" ", "F", "i", "f", "t", "e", "e", "n", " ", " ", "c", "h", "a", "r", "s", ".", " ", "x">>

M_Long ==
  <<"T", "h", "i", "s", " ", "s", "e", "n", "t", "e", "n", "c", "e", " ", "i", "s", " ", "l", "o", "n", "g", " ", "e", "n", "o", "u", "g", "h", ".", " ", "N", "e", "x", "t">>

\* str.upper() on one character
UpperChar(c) ==
  IF \E i \in 1..Len(LowerChars) : LowerChars[i] = c
    THEN UpperChars[CHOOSE i \in 1..Len(LowerChars) : LowerChars[i] = c]
    ELSE c

IsLetter(c) ==
  \E i \in 1..Len(LowerChars) : LowerChars[i] = c \/ UpperChars[i] = c

\* str.title(): a letter after a non-letter is upper-cased, any other lowered
TitleCase(s) ==
  [i \in 1..Len(s) |->
     IF i = 1 \/ ~IsLetter(s[i - 1]) THEN UpperChar(s[i]) ELSE LowerChar(s[i])]

\* str.replace(a, b) for characters a and b
ReplaceChar(s, a, b) == [i \in 1..Len(s) |-> IF s[i] = a THEN b ELSE s[i]]

\* str.split(sep) for a character sep
RECURSIVE Split(_, _)
Split(s, sep) ==
  IF ~InList(sep, s) THEN <<s>>
  ELSE LET i == CHOOSE k \in 1..Len(s) : s[k] = sep /\ \A n \in 1..(k - 1) : s[n] # sep
       IN  <<SubSeq(s, 1, i - 1)>> \o Split(SubSeq(s, i + 1, Len(s)), sep)

\* re.sub(r'\s+', ' ', s)
RECURSIVE CollapseSpace(_)
CollapseSpace(s) ==
  IF s = <<>> THEN <<>>
  ELSE IF Head(s) \in Whitespace THEN <<" ">> \o CollapseSpace(LStrip(s))
  ELSE <<Head(s)>> \o CollapseSpace(Tail(s))

\* url.rstrip('/')
RECURSIVE RStripSlash(_)
RStripSlash(s) ==
  IF s # <<>> /\ s[Len(s)] = "/" THEN RStripSlash(SubSeq(s, 1, Len(s) - 1)) ELSE s

\* s[:n]
Take(s, n) == SubSeq(s, 1, IF Len(s) < n THEN Len(s) ELSE n)

\* urlparse(url).path: what follows the host, up to a query or a fragment
UrlPath(url) ==
  LET seps == {i \in 1..(Len(url) - 2) : SubSeq(url, i, i + 2) = <<":", "/", "/">>}
      host == IF seps = {} THEN 1
              ELSE 3 + CHOOSE i \in seps : \A k \in seps : i <= k
      cuts == {k \in host..Len(url) : url[k] \in {"/", "?", "#"}}
      from == IF cuts = {} THEN Len(url) + 1
              ELSE CHOOSE k \in cuts : \A n \in cuts : k <= n
      ends == {k \in from..Len(url) : url[k] \in {"?", "#"}}
      to   == IF ends = {} THEN Len(url)
              ELSE (CHOOSE k \in ends : \A n \in ends : k <= n) - 1
  IN  SubSeq(url, from, to)

\* sentences = main_content.split('.'); sentences[0].strip()
FirstSentence(main_content) == Strip(Split(main_content, ".")[1])

\* ExtractTitle with the second-to-last path segment read only when there is one
ExtractTitle_Guarded(soup, url) ==
  LET title == Strip(soup.title)
      segs  == Split(UrlPath(url), "/")
      n     == Len(segs)
      slug  == IF segs[n] # <<>> THEN segs[n]
               ELSE IF n >= 2 /\ segs[n - 1] # <<>> THEN segs[n - 1]
               ELSE T_Page
  IN  IF title # <<>> THEN [raised |-> FALSE, title |-> title]
      ELSE [raised |-> FALSE,
            title |-> TitleCase(ReplaceChar(ReplaceChar(slug, "-", " "), "_", " "))]

\* the title of extract_page_info: the title element's text, else the last
\* path segment, else the one before it, else "Page"; path.split('/')[-2]
\* raises IndexError when the path has no '/'
ExtractTitle(soup, url) ==
  LET title == Strip(soup.title)
      segs  == Split(UrlPath(url), "/")
      n     == Len(segs)
  IN  IF title # <<>> THEN [raised |-> FALSE, title |-> title]
      ELSE IF segs[n] = <<>> /\ n < 2 THEN [raised |-> TRUE, title |-> <<>>]
      ELSE LET slug == IF segs[n] # <<>> THEN segs[n]
                       ELSE IF segs[n - 1] # <<>> THEN segs[n - 1]
                       ELSE T_Page
           IN  [raised |-> FALSE,
                title |-> TitleCase(ReplaceChar(ReplaceChar(slug, "-", " "), "_", " "))]

\* extract_page_info on a parsed page: soup.title is the title element's
\* text (<<>>: none), soup.meta the meta description's content (<<>>: none),
\* soup.main the text of the main areas or paragraphs
extract_page_info(soup, url) ==
  LET t            == ExtractTitle(soup, url)
      main_content == Strip(CollapseSpace(soup.main))
      meta         == Strip(soup.meta)
      description  ==
        IF meta = <<>> /\ main_content # <<>> /\ Len(FirstSentence(main_content)) > 20
          THEN FirstSentence(main_content) \o <<".">>
          ELSE meta
  IN  [raised |-> t.raised, title |-> t.title, description |-> description,
       main_content |-> main_content]

\* OpenRouterClient.generate_description; ai_description is what
\* _make_request returned (<<>>: None or an empty completion)
generate_description(content, ai_description) ==
  IF Strip(content) = <<>> THEN T_ResourceInformation
  ELSE IF ai_description # <<>> THEN ai_description
  ELSE IF Len(FirstSentence(content)) > 10
    THEN Take(FirstSentence(content), 150) \o
           (IF Len(FirstSentence(content)) > 150 THEN <<".", ".", ".">> ELSE <<>>)
  ELSE T_ResourceInformation

\* whether process_url calls the description generator
CallsGenerator(ai_client, info) == ai_client /\ info.main_content # <<>>

\* the "Generate description" step of process_url
Describe(ai_client, info, ai_description) ==
  IF CallsGenerator(ai_client, info)
    THEN generate_description(info.main_content, ai_description)
  ELSE IF info.description # <<>> THEN info.description
  ELSE IF info.main_content # <<>> /\ Len(FirstSentence(info.main_content)) > 10
    THEN FirstSentence(info.main_content) \o <<".">>
  ELSE T_ResourceInformation

\* any(keyword in url.lower() for keyword in ['guide', 'doc', 'api', 'reference'])
ProbesMarkdown(url) ==
  \E n \in 1..Len(MdKeywords) : Contains(MdKeywords[n], Lower(url))

\* md_url = base_url + extension, for the k-th extension
MdCandidate(url, k) == RStripSlash(url) \o MD_EXTENSIONS[k]

\* find_md_link, given the outcome of the HEAD request on each candidate
\* ("200", "404" or "exception"); <<>> stands for None
find_md_link(url, probes) ==
  LET hits == {k \in 1..Len(MD_EXTENSIONS) : probes[k] = "200"}
  IN  IF hits = {} THEN <<>>
      ELSE MdCandidate(url, CHOOSE k \in hits : \A n \in hits : k <= n)

\* the result dict as first built
DefaultResult(url) ==
  [url |-> url, title |-> T_Page, description |-> T_ResourceInformation,
   md_link |-> <<>>]

\* process_url as one call, on a page with its fetch outcome (page.fetched),
\* its document, the generator's completion and the probes' outcomes:
\* the returned dict, or raised
process_url(url, ai_client, page) ==
  IF ~page.fetched THEN [raised |-> FALSE, result |-> DefaultResult(url)]
  ELSE LET info == extract_page_info(page.soup, url)
       IN  IF info.raised THEN [raised |-> TRUE, result |-> DefaultResult(url)]
           ELSE [raised |-> FALSE,
                 result |->
                   [url |-> url,
                    title |-> info.title,
                    description |-> Describe(ai_client, info, page.ai_description),
                    md_link |-> IF ProbesMarkdown(url)
                                  THEN find_md_link(url, page.probes) ELSE <<>>]]

\* the parsed pages: title element or none, meta description or none, and
\* the main text
Soups ==
  [title : {<<>>, T_Title}, meta : {<<>>, T_Meta},
   main : {<<>>, M_Short, M_Mid, M_Long}]

NoSoup == [title |-> <<>>, meta |-> <<>>, main |-> <<>>]

NoInfo ==
  [raised |-> FALSE, title |-> <<>>, description |-> <<>>, main_content |-> <<>>]

PuIdle ==
  [pc |-> "idle", url |-> <<>>, ai_client |-> FALSE, js |-> FALSE, attempt |-> 0,
   sleeps |-> 0, soup |-> NoSoup, info |-> NoInfo, generator_calls |-> 0,
   ai_description |-> <<>>, probes |-> <<>>, result |-> DefaultResult(<<>>)]

PuStart ==
  \E url \in UrlPool, ai_client \in BOOLEAN, js \in BOOLEAN :
     pu = [PuIdle EXCEPT !.pc = "fetch", !.url = url, !.ai_client = ai_client,
                         !.js = js, !.result = DefaultResult(url)]

\* PuAttempt without the `if not soup: return result` of process_url: after
\* the last failed attempt the markdown probe still runs
PuAttempt_NoEarlyReturn ==
  /\ pu.pc = "fetch"
  /\ ~pu.js
  /\ pu.attempt < MAX_RETRIES
  /\ \/ \E soup \in Soups :
          pu' = [pu EXCEPT !.pc = "extract", !.soup = soup]
     \/ pu' = IF pu.attempt = MAX_RETRIES - 1
                THEN [pu EXCEPT !.pc = IF ProbesMarkdown(pu.url) THEN "probe" ELSE "done",
                                !.attempt = pu.attempt + 1]
                ELSE [pu EXCEPT !.attempt = pu.attempt + 1, !.sleeps = pu.sleeps + 1]
  /\ UNCHANGED <<cat, sm, rb, pipe, vm>>

\* one pass of `for attempt in range(MAX_RETRIES)` in _fetch_with_requests:
\* the page is returned, or the attempt fails and, unless it was the last,
\* is followed by time.sleep(1); after the last the fetch returns None and
\* process_url returns its default result
PuAttempt ==
  /\ pu.pc = "fetch"
  /\ ~pu.js
  /\ pu.attempt < MAX_RETRIES
  /\ \/ \E soup \in Soups :
          pu' = [pu EXCEPT !.pc = "extract", !.soup = soup]
     \/ pu' = IF pu.attempt = MAX_RETRIES - 1
                THEN [pu EXCEPT !.pc = "done", !.attempt = pu.attempt + 1]
                ELSE [pu EXCEPT !.attempt = pu.attempt + 1, !.sleeps = pu.sleeps + 1]
  /\ UNCHANGED <<cat, sm, rb, pipe, vm>>

\* _fetch_with_playwright: one try
PuRender ==
  /\ pu.pc = "fetch"
  /\ pu.js
  /\ \/ \E soup \in Soups :
          pu' = [pu EXCEPT !.pc = "extract", !.soup = soup]
     \/ pu' = [pu EXCEPT !.pc = "done", !.attempt = pu.attempt + 1]
  /\ UNCHANGED <<cat, sm, rb, pipe, vm>>

\* title, description, main_content = self.extract_page_info(soup, url)
PuExtract ==
  /\ pu.pc = "extract"
  /\ LET info == extract_page_info(pu.soup, pu.url)
     IN  pu' = IF info.raised
                 THEN [pu EXCEPT !.pc = "raised"]
                 ELSE [pu EXCEPT !.pc = "describe", !.info = info,
                                 !.result.title = info.title]
  /\ UNCHANGED <<cat, sm, rb, pipe, vm>>

\* the "Generate description" step; the generator's request gives a
\* completion or nothing
PuDescribe ==
  /\ pu.pc = "describe"
  /\ \E ai_description \in IF CallsGenerator(pu.ai_client, pu.info)
                             THEN {<<>>, T_Generated} ELSE {<<>>} :
       pu' = [pu EXCEPT
                !.pc = IF ProbesMarkdown(pu.url) THEN "probe" ELSE "done",
                !.generator_calls =
                   IF CallsGenerator(pu.ai_client, pu.info) THEN @ + 1 ELSE @,
                !.ai_description = ai_description,
                !.result.description = Describe(pu.ai_client, pu.info, ai_description)]
  /\ UNCHANGED <<cat, sm, rb, pipe, vm>>

\* PuProbe without the `return md_url`: the loop goes on after a success and
\* the last candidate answering 200 is kept
PuProbe_NoReturn ==
  /\ pu.pc = "probe"
  /\ Len(pu.probes) < Len(MD_EXTENSIONS)
  /\ \E outcome \in {"200", "404", "exception"} :
       pu' = [pu EXCEPT
                !.pc = IF Len(pu.probes) + 1 = Len(MD_EXTENSIONS) THEN "done" ELSE "probe",
                !.probes = Append(@, outcome),
                !.result.md_link = IF outcome = "200"
                                     THEN MdCandidate(pu.url, Len(pu.probes) + 1)
                                     ELSE @]
  /\ UNCHANGED <<cat, sm, rb, pipe, vm>>

\* one pass of `for extension in MD_EXTENSIONS` in find_md_link
PuProbe ==
  /\ pu.pc = "probe"
  /\ Len(pu.probes) < Len(MD_EXTENSIONS)
  /\ \E outcome \in {"200", "404", "exception"} :
       pu' = IF outcome = "200"
               THEN [pu EXCEPT !.pc = "done", !.probes = Append(@, outcome),
                               !.result.md_link = MdCandidate(pu.url, Len(pu.probes) + 1)]
             ELSE IF Len(pu.probes) + 1 = Len(MD_EXTENSIONS)
               THEN [pu EXCEPT !.pc = "done", !.probes = Append(@, outcome)]
             ELSE [pu EXCEPT !.probes = Append(@, outcome)]
  /\ UNCHANGED <<cat, sm, rb, pipe, vm>>

\* ------------------------------------------------- process_urls_parallel

\* ThreadPoolExecutor(max_workers=5)
MAX_WORKERS == 5

\* longest URL list handed to process_urls_parallel
MaxPipeUrls == 3

PipePool == {U_DocsRoot, U_Root}

\* what a unit may meet (pipe.pages holds the pages of a run): a page that
\* cannot be fetched, a full page, and an empty document
PageUnreachable ==
  [fetched |-> FALSE, soup |-> NoSoup, ai_description |-> <<>>,
   probes |-> <<"exception", "exception", "exception">>]

PageFull ==
  [fetched |-> TRUE, soup |-> [title |-> T_Title, meta |-> T_Meta, main |-> M_Long],
   ai_description |-> T_Generated, probes |-> <<"404", "200", "200">>]

PageEmpty ==
  [fetched |-> TRUE, soup |-> NoSoup, ai_description |-> <<>>,
   probes |-> <<"404", "exception", "404">>]

PipePages == {PageUnreachable, PageFull, PageEmpty}

\* DictPut that puts the new key before the others
DictPut_Front(d, k, v) == <<[key |-> k, val |-> v]>> \o d

\* one URL more of the category API Reference than the pool has workers,
\* then a URL of the category Other
CrowdedUrls == [i \in 1..(MAX_WORKERS + 1) |-> U_DocsRoot] \o <<U_Root>>

\* dict[k] = v, for a new key k
DictPut(d, k, v) == Append(d, [key |-> k, val |-> v])

\* the futures of a category, as submitted
SubmitAll(category_urls) ==
  [k \in 1..Len(category_urls) |->
     [url |-> category_urls[k], state |-> "queued",
      out |-> [raised |-> FALSE, result |-> DefaultResult(category_urls[k])]]]

\* ConsumeFuture without the try/except: the exception of a unit leaves
\* process_urls_parallel
ConsumeFuture_Unguarded(p, k) ==
  LET out == p.units[k].out
      q   == [p EXCEPT !.units[k].state = "yielded"]
  IN  IF out.raised
        THEN [q EXCEPT !.pc = "raised"]
      ELSE [q EXCEPT !.category_results = Append(@, out.result),
                     !.processed_count = @ + 1]

\* ConsumeFuture with `category_results = [result]` in place of the append
ConsumeFuture_Overwrite(p, k) ==
  LET out == p.units[k].out
      q   == [p EXCEPT !.units[k].state = "yielded"]
  IN  IF out.raised
        THEN [q EXCEPT !.processed_count = @ + 1,
                       !.errors = Append(@, p.units[k].url)]
      ELSE [q EXCEPT !.category_results = <<out.result>>,
                     !.processed_count = @ + 1]

\* the body of `for future in as_completed(...)` on a completed future: the
\* result is appended and counted and the progress reported; an exception,
\* of the unit or of the callback (raised after the result was appended and
\* counted), is printed with the unit's URL and counted in the except clause
ConsumeFuture(p, k) ==
  LET out == p.units[k].out
      q   == [p EXCEPT !.units[k].state = "yielded"]
  IN  IF out.raised
        THEN [q EXCEPT !.processed_count = @ + 1,
                       !.errors = Append(@, p.units[k].url)]
      ELSE IF p.callback = "none"
        THEN [q EXCEPT !.category_results = Append(@, out.result),
                       !.processed_count = @ + 1]
      ELSE IF p.callback = "ok"
        THEN [q EXCEPT !.category_results = Append(@, out.result),
                       !.processed_count = @ + 1,
                       !.calls = Append(@, [message |-> "processed",
                                            processed |-> p.processed_count + 1,
                                            total |-> Len(p.urls)])]
      ELSE [q EXCEPT !.category_results = Append(@, out.result),
                     !.processed_count = @ + 2,
                     !.calls = Append(@, [message |-> "processed",
                                          processed |-> p.processed_count + 1,
                                          total |-> Len(p.urls)]),
                     !.errors = Append(@, p.units[k].url)]

PipeIdle ==
  [pc |-> "idle", urls |-> <<>>, ai_client |-> FALSE, callback |-> "none",
   categorized_urls |-> <<>>, c |-> 0, units |-> <<>>, category_results |-> <<>>,
   results |-> <<>>, processed_count |-> 0, calls |-> <<>>, errors |-> <<>>,
   pages |-> {}, met |-> [x \in PipePool \X PipePages |-> 0]]

\* the call, up to the loop over the categories; the callback is absent,
\* returns, raises on every call, or raises on the two-argument progress call
\* only (a callback taking the message alone)
PipeStart ==
  \E urls \in BSeq(PipePool, MaxPipeUrls), ai_client \in BOOLEAN,
     callback \in {"none", "ok", "raises", "raises_on_progress"} :
     pipe = [PipeIdle EXCEPT !.pc = "category", !.urls = urls,
                             !.ai_client = ai_client, !.callback = callback,
                             !.categorized_urls = categorize_urls(urls), !.c = 1,
                             !.pages = PipePages]

\* the head of the loop body: the category is announced to the callback (an
\* exception of the callback leaves the function) and its URLs are submitted
PipeBeginCategory ==
  /\ pipe.pc = "category"
  /\ pipe.c <= Len(pipe.categorized_urls)
  /\ pipe' =
       IF pipe.callback = "raises" THEN [pipe EXCEPT !.pc = "raised"]
       ELSE [pipe EXCEPT
               !.pc = "pool",
               !.category_results = <<>>,
               !.units = SubmitAll(pipe.categorized_urls[pipe.c].val),
               !.calls = IF pipe.callback \in {"ok", "raises_on_progress"}
                           THEN Append(@, [message |-> "category", processed |-> 0,
                                           total |-> 0])
                           ELSE @]
  /\ UNCHANGED <<cat, sm, rb, pu, vm>>

Running(units) == {k \in 1..Len(units) : units[k].state = "running"}

\* PipeWorkerStart for a pool that starts every submitted unit at once
PipeWorkerStart_Unbounded ==
  /\ pipe.pc = "pool"
  /\ \E k \in 1..Len(pipe.units) :
       /\ pipe.units[k].state = "queued"
       /\ \A n \in 1..(k - 1) : pipe.units[n].state # "queued"
       /\ pipe' = [pipe EXCEPT !.units[k].state = "running"]
  /\ UNCHANGED <<cat, sm, rb, pu, vm>>

\* a free worker of the pool takes a queued unit
PipeWorkerStart ==
  /\ pipe.pc = "pool"
  /\ Cardinality(Running(pipe.units)) < MAX_WORKERS
  /\ \E k \in 1..Len(pipe.units) :
       /\ pipe.units[k].state = "queued"
       /\ \A n \in 1..(k - 1) : pipe.units[n].state # "queued"
       /\ pipe' = [pipe EXCEPT !.units[k].state = "running"]
  /\ UNCHANGED <<cat, sm, rb, pu, vm>>

\* a running unit ends: process_url returned or raised, on one of the pages
\* the site may answer with; pipe.met counts how often each URL met each page
PipeWorkerFinish ==
  /\ pipe.pc = "pool"
  /\ \E k \in Running(pipe.units), page \in pipe.pages :
       pipe' = [pipe EXCEPT !.units[k].state = "completed",
                            !.units[k].out =
                               process_url(pipe.units[k].url, pipe.ai_client, page),
                            !.met[<<pipe.units[k].url, page>>] = @ + 1]
  /\ UNCHANGED <<cat, sm, rb, pu, vm>>

\* as_completed yields a completed future
PipeConsume ==
  /\ pipe.pc = "pool"
  /\ \E k \in 1..Len(pipe.units) :
       /\ pipe.units[k].state = "completed"
       /\ pipe' = ConsumeFuture(pipe, k)
  /\ UNCHANGED <<cat, sm, rb, pu, vm>>

\* every future was yielded: results[category] = category_results
PipeEndCategory ==
  /\ pipe.pc = "pool"
  /\ \A k \in 1..Len(pipe.units) : pipe.units[k].state = "yielded"
  /\ pipe' = [pipe EXCEPT
                !.pc = "category", !.c = @ + 1, !.units = <<>>,
                !.results = DictPut(@, pipe.categorized_urls[pipe.c].key,
                                    pipe.category_results)]
  /\ UNCHANGED <<cat, sm, rb, pu, vm>>

\* return results
PipeReturn ==
  /\ pipe.pc = "category"
  /\ pipe.c > Len(pipe.categorized_urls)
  /\ pipe' = [pipe EXCEPT !.pc = "done"]
  /\ UNCHANGED <<cat, sm, rb, pu, vm>>

\* ------------------------- OpenRouterClient.validate_model_format

\* the characters model strings are made of
ModelChars == {"a", "/", ":", " "}

\* longest model string made of ModelChars
MaxModelLen == 4

\* len(provider) > 50, len(model_part) > 100
ProviderLimit == 50

ModelPartLimit == 100

\* the character c, n times
Repeat(c, n) == [i \in 1..n |-> c]

\* model strings at and just over the two length limits
LongModels ==
  {Repeat("a", ProviderLimit) \o <<"/", "a">>,
   Repeat("a", ProviderLimit + 1) \o <<"/", "a">>,
   <<"a", "/">> \o Repeat("a", ModelPartLimit),
   <<"a", "/">> \o Repeat("a", ModelPartLimit + 1),
   Repeat("a", ProviderLimit) \o <<"/">> \o Repeat("a", ModelPartLimit - 2) \o <<":", "a">>}

ModelInputs == BSeq(ModelChars, MaxModelLen) \cup LongModels

\* s.split(c, 1)
SplitOnce(s, c) ==
  IF ~InList(c, s) THEN <<s>>
  ELSE LET i == CHOOSE k \in 1..Len(s) : s[k] = c /\ \A n \in 1..(k - 1) : s[n] # c
       IN  <<SubSeq(s, 1, i - 1), SubSeq(s, i + 1, Len(s))>>

\* validate_model_format testing `not provider or not model_part` and
\* `not model_name or not variant`, without the strip()
validate_model_format_NoStrip(model) ==
  IF model = <<>> \/ ~InList("/", model) THEN FALSE
  ELSE IF \/ Contains(<<"/", "/">>, model)
          \/ StartsWith(model, <<"/">>)
          \/ model[Len(model)] = "/"
    THEN FALSE
  ELSE LET parts == SplitOnce(model, "/")
       IN  IF Len(parts) # 2 THEN FALSE
           ELSE LET provider   == parts[1]
                    model_part == parts[2]
                IN  IF provider = <<>> \/ model_part = <<>> THEN FALSE
                    ELSE IF \/ Len(provider) > ProviderLimit
                            \/ Len(model_part) > ModelPartLimit
                      THEN FALSE
                    ELSE IF InList(":", model_part)
                      THEN LET nv == SplitOnce(model_part, ":")
                           IN  ~(nv[1] = <<>> \/ nv[2] = <<>>)
                    ELSE TRUE

\* validate_model_format, test by test
validate_model_format(model) ==
  IF model = <<>> \/ ~InList("/", model) THEN FALSE
  ELSE IF \/ Contains(<<"/", "/">>, model)
          \/ StartsWith(model, <<"/">>)
          \/ model[Len(model)] = "/"
    THEN FALSE
  ELSE LET parts == SplitOnce(model, "/")
       IN  IF Len(parts) # 2 THEN FALSE
           ELSE LET provider   == parts[1]
                    model_part == parts[2]
                IN  IF Strip(provider) = <<>> \/ Strip(model_part) = <<>> THEN FALSE
                    ELSE IF \/ Len(provider) > ProviderLimit
                            \/ Len(model_part) > ModelPartLimit
                      THEN FALSE
                    ELSE IF InList(":", model_part)
                      THEN LET nv == SplitOnce(model_part, ":")
                           IN  ~(Strip(nv[1]) = <<>> \/ Strip(nv[2]) = <<>>)
                    ELSE TRUE

VmIdle == [pc |-> "idle", model |-> <<>>, result |-> FALSE]

VmStart ==
  \E model \in ModelInputs :
     vm = [pc |-> "call", model |-> model, result |-> FALSE]

\* the call returns
VmValidate ==
  /\ vm.pc = "call"
  /\ vm' = [vm EXCEPT !.pc = "done", !.result = validate_model_format(vm.model)]
  /\ UNCHANGED <<cat, sm, rb, pu, pipe>>

\* ------------------------------------------------------- specifications

CatInit == CatStart /\ sm = SmIdle /\ rb = RbIdle /\ pu = PuIdle /\ pipe = PipeIdle
  /\ vm = VmIdle

CatNext == CatLoop \/ CatReturn

SpecCat == CatInit /\ [][CatNext]_vars

SmInit == SmStart /\ cat = CatIdle /\ rb = RbIdle /\ pu = PuIdle /\ pipe = PipeIdle
  /\ vm = VmIdle

SmNext == SmFetch \/ SmRecurse \/ SmLoopEnd

SpecSitemap == SmInit /\ [][SmNext]_vars

RbInit == RbStart /\ cat = CatIdle /\ sm = SmIdle /\ pu = PuIdle /\ pipe = PipeIdle
  /\ vm = VmIdle

RbNext == RbFetch \/ RbLine \/ RbFinish

SpecRobots == RbInit /\ [][RbNext]_vars

PuInit == PuStart /\ cat = CatIdle /\ sm = SmIdle /\ rb = RbIdle /\ pipe = PipeIdle
  /\ vm = VmIdle

PuNext == PuAttempt \/ PuRender \/ PuExtract \/ PuDescribe \/ PuProbe

SpecUrl == PuInit /\ [][PuNext]_vars

PipeInit == PipeStart /\ cat = CatIdle /\ sm = SmIdle /\ rb = RbIdle /\ pu = PuIdle
  /\ vm = VmIdle

PipeNext ==
  \/ PipeBeginCategory \/ PipeWorkerStart \/ PipeWorkerFinish
  \/ PipeConsume \/ PipeEndCategory \/ PipeReturn

SpecPipeline == PipeInit /\ [][PipeNext]_vars

\* process_urls_parallel on a list that puts more URLs in its first category
\* than the pool has workers, with another category after it
PoolInit ==
  /\ pipe = [PipeIdle EXCEPT !.pc = "category", !.urls = CrowdedUrls,
                             !.categorized_urls = categorize_urls(CrowdedUrls),
                             !.c = 1, !.pages = {PageUnreachable, PageFull}]
  /\ cat = CatIdle /\ sm = SmIdle /\ rb = RbIdle /\ pu = PuIdle
  /\ vm = VmIdle

SpecPool == PoolInit /\ [][PipeNext]_vars

VmInit ==
  VmStart /\ cat = CatIdle /\ sm = SmIdle /\ rb = RbIdle /\ pu = PuIdle
  /\ pipe = PipeIdle

VmNext == VmValidate

SpecModelFormat == VmInit /\ [][VmNext]_vars

\* ------------------------------------------------------------ properties

\* C1: called with no description generator, process_urls_parallel returns a
\* report whose category sequences together hold exactly one PageResult per
\* input URL.
PipelineOneResultPerUrl ==
  (pipe.pc = "done" /\ ~pipe.ai_client)
    => Len(DictFlatten(pipe.results)) = Len(pipe.urls)

\* C2: process_url never raises; it returns a PageResult for its URL with a
\* title and a description filled in.
ProcessUrlNeverRaises ==
  /\ pu.pc # "raised"
  /\ pu.pc = "done" =>
       /\ pu.result.url = pu.url
       /\ pu.result.title # <<>>
       /\ pu.result.description # <<>>

\* C3: the fractions reported to a progress callback never decrease, and the
\* last invocation of the callback in a run over at least one URL reports
\* processed = total, that is 1.0.
PipelineProgressReachesOne ==
  (pipe.pc = "done" /\ pipe.callback = "ok" /\ Len(pipe.urls) >= 1)
    => LET reports == SelectSeq(pipe.calls, LAMBDA r : r.message = "processed")
       IN  /\ \A i, j \in 1..Len(reports) :
                i <= j => reports[i].processed * reports[j].total
                            <= reports[j].processed * reports[i].total
           /\ pipe.calls # <<>>
           /\ pipe.calls[Len(pipe.calls)].message = "processed"
           /\ pipe.calls[Len(pipe.calls)].processed = pipe.calls[Len(pipe.calls)].total

\* C4: categorize_urls partitions its input: the category sequences together
\* hold every URL as often as the input list does, and no URL sits in two
\* categories.
CategorizePartitions ==
  cat.pc = "done" =>
    /\ Len(DictFlatten(cat.result)) = Len(cat.urls)
    /\ \A u \in UrlPool :
         /\ Count(u, DictFlatten(cat.result)) = Count(u, cat.urls)
         /\ Cardinality({i \in 1..Len(cat.result) : Count(u, cat.result[i].val) > 0})
              = IF Count(u, cat.urls) > 0 THEN 1 ELSE 0
    /\ \A i, j \in 1..Len(cat.result) :
         cat.result[i].key = cat.result[j].key => i = j

\* a finished run over three URLs, one of them twice, that fills two categories
CategorizePartitionsWitness ==
  /\ cat.pc = "done"
  /\ Len(cat.urls) = 3
  /\ Len(cat.result) = 2
  /\ \E u \in UrlPool : Count(u, cat.urls) = 2

\* the categories, in declared order, one of whose keywords occurs in the
\* lower-cased URL
MatchingCategories(url) ==
  {j \in 1..Len(CATEGORY_KEYWORDS) :
     \E n \in 1..Len(CATEGORY_KEYWORDS[j].keywords) :
        Contains(CATEGORY_KEYWORDS[j].keywords[n], Lower(url))}

RECURSIVE Nested(_, _, _)
Nested(world, u, fuel) ==
  \/ ~world[u].ok
  \/ world[u].sitemaps = <<>>
  \/ /\ fuel > 0
     /\ \A i \in 1..Len(world[u].sitemaps) :
          Nested(world, world[u].sitemaps[i], fuel - 1)

Acyclic(world) == Nested(world, RootSitemap, Cardinality(SitemapUrls) - 1)

\* the sitemap URLs resolved from u, u included
RECURSIVE Descendants(_, _, _)
Descendants(world, u, fuel) ==
  {u} \cup
    IF fuel = 0 \/ ~world[u].ok THEN {}
    ELSE UNION {Descendants(world, world[u].sitemaps[i], fuel - 1) :
                  i \in 1..Len(world[u].sitemaps)}

Resolved(world) == Descendants(world, RootSitemap, Cardinality(SitemapUrls) - 1)

\* the nesting depth of the index at u (0 for a leaf)
RECURSIVE Depth(_, _)
Depth(world, u) ==
  IF ~world[u].ok \/ world[u].sitemaps = <<>> THEN 0
  ELSE LET ds == {Depth(world, world[u].sitemaps[i]) : i \in 1..Len(world[u].sitemaps)}
       IN  1 + CHOOSE d \in ds : \A e \in ds : e <= d

RECURSIVE ConcatAll(_)
ConcatAll(lists) ==
  IF lists = <<>> THEN <<>> ELSE Head(lists) \o ConcatAll(Tail(lists))

\* the non-empty <url><loc> texts of the leaves below u, in document order
RECURSIVE LeafUrls(_, _)
LeafUrls(world, u) ==
  IF world[u].sitemaps = <<>>
    THEN SelectSeq(world[u].urls, LAMBDA x : Len(x) > 0)
    ELSE ConcatAll([i \in 1..Len(world[u].sitemaps) |->
                      LeafUrls(world, world[u].sitemaps[i])])

\* C6: on documents that all load and nest without a cycle, to any depth,
\* extract_urls_from_sitemap returns the non-empty leaf URLs of all
\* descendant sitemaps concatenated in document order.
SitemapFlattensInOrder ==
  (/\ sm.pc = "done"
   /\ Acyclic(sm.world)
   /\ \A u \in Resolved(sm.world) : sm.world[u].ok)
    => sm.result = LeafUrls(sm.world, RootSitemap)

\* an index of depth 2 (s1 lists s2 and s3, s2 lists s3) over a leaf with an
\* empty entry has been resolved
SitemapFlattensInOrderWitness ==
  /\ sm.pc = "done"
  /\ sm.world["s1"].sitemaps = <<"s2", "s3">>
  /\ sm.world["s2"].sitemaps = <<"s3">>
  /\ sm.world["s3"].urls = <<U_About, <<>>, U_X>>
  /\ Depth(sm.world, RootSitemap) = 2
  /\ sm.result = <<U_About, U_X, U_About, U_X>>

\* C7: a visited-URL guard keeps a sitemap URL that is being resolved from
\* being resolved again below itself.
SitemapNeverReentered ==
  \A i, j \in 1..Len(sm.stack) : sm.stack[i].url = sm.stack[j].url => i = j

\* what the resolution of u gives when a failing node gives nothing
RECURSIVE SurvivingUrls(_, _)
SurvivingUrls(world, u) ==
  IF ~world[u].ok THEN <<>>
  ELSE IF world[u].sitemaps = <<>>
    THEN SelectSeq(world[u].urls, LAMBDA x : Len(x) > 0)
  ELSE ConcatAll([i \in 1..Len(world[u].sitemaps) |->
                    SurvivingUrls(world, world[u].sitemaps[i])])

\* C8: when the fetch or the parse of a node fails, that node alone gives
\* nothing: the URLs of the other children are returned in document order,
\* and a failure of the top-level sitemap gives the empty list.
SitemapFailureIsLocal ==
  (/\ sm.pc = "done"
   /\ Acyclic(sm.world)
   /\ \E u \in Resolved(sm.world) : ~sm.world[u].ok)
    => /\ sm.result = SurvivingUrls(sm.world, RootSitemap)
       /\ ~sm.world[RootSitemap].ok => sm.result = <<>>

\* the index s1 lists s2, s3, s2; s3 failed and the URLs of s2 were returned
\* for the child before and for the child after it
SitemapFailureIsLocalWitness ==
  /\ sm.pc = "done"
  /\ sm.world["s1"].ok /\ sm.world["s1"].sitemaps = <<"s2", "s3", "s2">>
  /\ ~sm.world["s3"].ok
  /\ sm.world["s2"].ok /\ sm.world["s2"].urls = <<U_X, T_NotUrl, U_About>>
  /\ sm.result = <<U_X, T_NotUrl, U_About, U_X, T_NotUrl, U_About>>

\* whether the parser takes the line for a User-agent line
IsUserAgentLine(raw) ==
  LET s == Strip(raw)
  IN  s # <<>> /\ s[1] # "#" /\ StartsWith(Lower(s), T_UserAgent)

\* whether the line is a `Disallow: /` line
IsDisallowAllLine(raw) ==
  LET s == Strip(raw)
  IN  /\ s # <<>> /\ s[1] # "#"
      /\ ~StartsWith(Lower(s), T_UserAgent)
      /\ StartsWith(Lower(s), T_Disallow)
      /\ Strip(AfterFirst(s, ":")) = <<"/">>

\* the agent named by the most recent User-agent line before line i (<<>>:
\* there is none)
ActiveAgent(lines, i) ==
  LET before == {j \in 1..(i - 1) : IsUserAgentLine(lines[j])}
  IN  IF before = {} THEN <<>>
      ELSE LET j == CHOOSE k \in before : \A n \in before : n <= k
           IN  Strip(AfterFirst(Strip(lines[j]), ":"))

\* C9: on a robots.txt fetched with status 200, a crawler is reported blocked
\* exactly when it is in the input list and some `Disallow: /` line occurs
\* while the active agent is `*` or the crawler's own name.
RobotsBlocksExactly ==
  (rb.pc = "done" /\ rb.response.kind = "response" /\ rb.response.status_code = 200)
    => \A c \in CrawlerPool \cup {S_BingBot, <<"*">>} :
         InList(c, rb.result.blocked_crawlers)
           <=> /\ InList(c, rb.crawlers)
               /\ \E i \in 1..Len(rb.response.lines) :
                    /\ IsDisallowAllLine(rb.response.lines[i])
                    /\ ActiveAgent(rb.response.lines, i) \in {<<"*">>, c}

\* a wildcard group followed by `Disallow: /` under GPTBot's own name: only
\* GPTBot of the two crawlers asked about is blocked
RobotsBlocksExactlyWitness ==
  /\ rb.pc = "done"
  /\ rb.response.status_code = 200
  /\ rb.response.lines = <<L_AgentAll, L_AgentGPT, L_DisallowAll>>
  /\ rb.crawlers = <<S_ClaudeBot, S_GPTBot>>
  /\ rb.result.blocked_crawlers = <<S_GPTBot>>

\* C10: every result check_crawler_access returns has accessible true if and
\* only if blocked_crawlers is empty.
RobotsAccessibleIffNoneBlocked ==
  rb.pc = "done" =>
    (rb.result.accessible <=> rb.result.blocked_crawlers = <<>>)

\* a parsed robots.txt that blocks both crawlers asked about
RobotsAccessibleIffNoneBlockedWitness ==
  /\ rb.pc = "done"
  /\ rb.response.status_code = 200
  /\ Len(rb.result.blocked_crawlers) = 2
  /\ ~rb.result.accessible

\* C11: a 404 response gives error "No robots.txt file found" with accessible
\* true and nothing blocked; any other status but 200 gives the HTTP error
\* and no parsing (nothing blocked, no content kept); an exception of the
\* request is returned as the error.
RobotsErrorsReturned ==
  rb.pc = "done" =>
    /\ (rb.response.kind = "response" /\ rb.response.status_code = 404)
         => /\ rb.result.error = "No robots.txt file found"
            /\ rb.result.accessible
            /\ rb.result.blocked_crawlers = <<>>
            /\ rb.result.robots_content = <<>>
    /\ (rb.response.kind = "response" /\ rb.response.status_code \notin {200, 404})
         => /\ rb.result.error = "HTTP error"
            /\ rb.result.accessible
            /\ rb.result.blocked_crawlers = <<>>
            /\ rb.result.robots_content = <<>>
    /\ rb.response.kind = "exception"
         => /\ rb.result.error = "exception"
            /\ rb.result.blocked_crawlers = <<>>
            /\ rb.result.robots_content = <<>>
    /\ (rb.response.kind = "response" /\ rb.response.status_code = 200)
         => rb.result.error = "None"

\* a 403 response whose body blocks every crawler was answered for two
\* crawlers without being parsed
RobotsErrorsReturnedWitness ==
  /\ rb.pc = "done"
  /\ rb.response.kind = "response"
  /\ rb.response.status_code = 403
  /\ rb.response.lines = <<L_AgentAll, L_DisallowAll>>
  /\ Len(rb.crawlers) = 2
  /\ rb.result.error = "HTTP error"

\* C12: blocked_crawlers holds no crawler name more than once, whatever the
\* robots.txt and the crawler list, a list with a repeated name included.
RobotsBlockedNoDuplicates ==
  \A i, j \in 1..Len(rb.result.blocked_crawlers) :
     rb.result.blocked_crawlers[i] = rb.result.blocked_crawlers[j] => i = j

\* the URLs of a sequence of PageResults
ResultUrls(page_results) == [n \in 1..Len(page_results) |-> page_results[n].url]

\* C13: a unit that raises is caught (only the callback can end the run
\* early), counted in processed_count and left out of its category's
\* results, and the run goes on: every other unit of the category and every
\* later category is processed and returned.  The counts per URL are stated
\* for a callback that returns: the except clause also logs and counts an
\* exception of the callback.
PipelineUnitFailureIsLocal ==
  /\ pipe.pc = "raised" => pipe.callback = "raises"
  /\ pipe.callback # "raises" =>
       pipe.processed_count =
         Len(DictFlatten(pipe.results)) + Len(pipe.errors)
           + (IF pipe.pc = "pool" THEN Len(pipe.category_results) ELSE 0)
  /\ pipe.pc = "done" =>
       /\ Len(pipe.results) = Len(pipe.categorized_urls)
       /\ \A i \in 1..Len(pipe.results) :
            pipe.results[i].key = pipe.categorized_urls[i].key
  /\ (pipe.pc = "done" /\ pipe.callback \in {"none", "ok"}) =>
       /\ pipe.processed_count = Len(pipe.urls)
       /\ \A i \in 1..Len(pipe.results) :
            /\ \A u \in PipePool :
                 Count(u, ResultUrls(pipe.results[i].val))
                   + (IF InList(u, pipe.categorized_urls[i].val)
                        THEN Count(u, pipe.errors) ELSE 0)
                   = Count(u, pipe.categorized_urls[i].val)

\* of two units for https://docs.io one raised and one returned, and the
\* later category Other was processed as well
PipelineUnitFailureIsLocalWitness ==
  /\ pipe.pc = "done"
  /\ pipe.urls = <<U_DocsRoot, U_Root, U_DocsRoot>>
  /\ pipe.errors = <<U_DocsRoot>>
  /\ pipe.processed_count = 3
  /\ ResultUrls(DictGet(pipe.results, "API Reference")) = <<U_DocsRoot>>
  /\ ResultUrls(DictGet(pipe.results, "Other")) = <<U_Root>>

\* the place of a category name in the declared order, "Other" last
CategoryRank(key) ==
  IF \E j \in 1..Len(CATEGORY_KEYWORDS) : CATEGORY_KEYWORDS[j].category = key
    THEN CHOOSE j \in 1..Len(CATEGORY_KEYWORDS) : CATEGORY_KEYWORDS[j].category = key
    ELSE Len(CATEGORY_KEYWORDS) + 1

\* C14: in the mapping categorize_urls returns, each category lists its URLs
\* in the order of the input list, no category is empty, and the keys come in
\* the declared order (Introduction, Get started, API Reference, Guides,
\* Resources, Other), not alphabetically.
CategorizeKeepsOrder ==
  cat.pc = "done" =>
    /\ \A i \in 1..Len(cat.result) :
         /\ cat.result[i].val # <<>>
         /\ cat.result[i].val =
              SelectSeq(cat.urls, LAMBDA u : InList(u, cat.result[i].val))
    /\ \A i, j \in 1..Len(cat.result) :
         i < j => CategoryRank(cat.result[i].key) < CategoryRank(cat.result[j].key)

\* user-guide came first in the input, yet Introduction, with its two URLs in
\* input order, comes before Get started
CategorizeKeepsOrderWitness ==
  /\ cat.pc = "done"
  /\ cat.urls = <<U_Guide, U_Quickstart, U_About>>
  /\ cat.result = <<[key |-> "Introduction", val |-> <<U_Quickstart, U_About>>],
                    [key |-> "Get started", val |-> <<U_Guide>>]>>

\* C15: categorizing the flattened output of categorize_urls again gives the
\* same mapping: the same keys in the same order with the same sequences.
CategorizeIdempotent ==
  cat.pc = "done" => categorize_urls(DictFlatten(cat.result)) = cat.result

\* a finished run whose flattened output is another list than its input and
\* has a category of two different URLs
CategorizeIdempotentWitness ==
  /\ cat.pc = "done"
  /\ DictFlatten(cat.result) # cat.urls
  /\ Len(cat.result) = 2
  /\ \E i \in 1..Len(cat.result) :
       Len(cat.result[i].val) = 2 /\ cat.result[i].val[1] # cat.result[i].val[2]

\* C16: the report process_urls_parallel returns has the keys of
\* categorize_urls(urls) in the same order, every PageResult under a category
\* is for a URL categorize_urls placed there, and no URL has more PageResults
\* than occurrences.
PipelineKeepsGrouping ==
  pipe.pc = "done" =>
    LET categorized == categorize_urls(pipe.urls)
    IN  /\ [i \in 1..Len(pipe.results) |-> pipe.results[i].key]
             = [i \in 1..Len(categorized) |-> categorized[i].key]
        /\ \A i \in 1..Len(pipe.results) :
             \A n \in 1..Len(pipe.results[i].val) :
                LET u == pipe.results[i].val[n].url
                IN  /\ InList(u, categorized[i].val)
                    /\ Count(u, ResultUrls(pipe.results[i].val))
                         <= Count(u, categorized[i].val)

\* a returned report over three URLs given in another order than that of
\* their two categories, each URL with its PageResult
PipelineKeepsGroupingWitness ==
  /\ pipe.pc = "done"
  /\ pipe.urls = <<U_Root, U_DocsRoot, U_Root>>
  /\ [i \in 1..Len(pipe.results) |-> pipe.results[i].key]
       = <<"API Reference", "Other">>
  /\ Len(pipe.results[1].val) = 1
  /\ Len(pipe.results[2].val) = 2

T_Http ==
  <<"h", "t", "t", "p", ":", "/", "/">>

T_Https ==
  <<"h", "t", "t", "p", "s", ":", "/", "/">>

\* a PageURL: not empty, with scheme http or https
IsPageUrl(u) == u # <<>> /\ (StartsWith(u, T_Http) \/ StartsWith(u, T_Https))

\* C17: every URL extract_urls_from_sitemap hands on is a PageURL (not
\* empty, scheme http or https); entries that are none are skipped.
SitemapYieldsPageUrls ==
  sm.pc = "done" => \A i \in 1..Len(sm.result) : IsPageUrl(sm.result[i])

\* whether every character of s is whitespace (the empty string included)
Blank(s) == \A i \in 1..Len(s) : s[i] \in Whitespace

\* the position of the first c in s, for s holding c
FirstIndex(s, c) == CHOOSE k \in 1..Len(s) : s[k] = c /\ \A n \in 1..(k - 1) : s[n] # c

\* what precedes and what follows the first "/" of a model string holding one
ProviderOf(model) == SubSeq(model, 1, FirstIndex(model, "/") - 1)

ModelPartOf(model) == SubSeq(model, FirstIndex(model, "/") + 1, Len(model))

\* whether the part of a model string after "/" has a name and, after a ":",
\* a variant, neither of them blank
NameAndVariant(part) ==
  IF InList(":", part)
    THEN /\ ~Blank(SubSeq(part, 1, FirstIndex(part, ":") - 1))
         /\ ~Blank(SubSeq(part, FirstIndex(part, ":") + 1, Len(part)))
    ELSE ~Blank(part)

\* the strings named as rejected: no slash, "//", a leading or trailing "/",
\* an empty model name or variant around ":"
RejectedForm(model) ==
  \/ ~InList("/", model)
  \/ Contains(<<"/", "/">>, model)
  \/ model[1] = "/"
  \/ model[Len(model)] = "/"
  \/ ~NameAndVariant(ModelPartOf(model))

\* provider/model-name or provider/model-name:variant, no part blank
AcceptedForm(model) ==
  /\ ~RejectedForm(model)
  /\ ~Blank(ProviderOf(model))

\* C18: validate_model_format returns true for every string
\* provider/model-name or provider/model-name:variant with non-empty provider,
\* model name and variant, and false for a string with no slash, with "//",
\* with a leading or trailing "/", or with an empty model name or variant.
ModelFormatAsStated ==
  vm.pc = "done" =>
    /\ AcceptedForm(vm.model) => vm.result
    /\ RejectedForm(vm.model) => ~vm.result

\* C18, with the length limits: validate_model_format returns true exactly for the strings
\* of that form whose provider has at most 50 and whose part after the first
\* "/" has at most 100 characters, and false for every other string.
ModelFormatWithinLimits ==
  vm.pc = "done" =>
    (vm.result <=>
       /\ AcceptedForm(vm.model)
       /\ Len(ProviderOf(vm.model)) <= ProviderLimit
       /\ Len(ModelPartOf(vm.model)) <= ModelPartLimit)

\* a well-formed string with a provider of 51 characters was rejected
ModelFormatWithinLimitsWitness ==
  /\ vm.pc = "done"
  /\ AcceptedForm(vm.model)
  /\ Len(ProviderOf(vm.model)) = ProviderLimit + 1
  /\ ~vm.result

\* process_url returned at `if not soup`: the fetch gave no document
FetchFailed == pu.pc = "done" /\ pu.info = NoInfo

\* C19: the page fetch of process_url, static or rendered, makes at most 3
\* attempts, waits after every failed attempt but the last, and reports
\* failure only after 3 failed attempts.
FetchRetriesThreeTimes ==
  /\ pu.attempt <= MAX_RETRIES
  /\ pu.sleeps = IF FetchFailed THEN pu.attempt - 1 ELSE pu.attempt
  /\ FetchFailed => pu.attempt = MAX_RETRIES

\* the description the generator's failure is said to fall back to: the one
\* of extract_page_info (the meta description when present), else the first
\* sentence, else "Resource information"
FallbackDescription(info) ==
  IF info.description # <<>> THEN info.description
  ELSE IF Len(FirstSentence(info.main_content)) > 10
    THEN FirstSentence(info.main_content) \o <<".">>
  ELSE T_ResourceInformation

\* C20: with a generator supplied and main content not empty, a non-empty
\* completion becomes the description, and a failed generator leaves the
\* description of extract_page_info (the meta description when present),
\* else the first sentence, else "Resource information".
GeneratorFallsBackToMeta ==
  (pu.pc \in {"probe", "done"} /\ pu.generator_calls > 0) =>
    pu.result.description =
      IF pu.ai_description # <<>> THEN pu.ai_description
      ELSE FallbackDescription(pu.info)

\* the units of the current category that as_completed has yielded
Yielded(units) == {k \in 1..Len(units) : units[k].state = "yielded"}

\* C21: at most 5 process_url units execute at any instant, and categories run
\* one after the other: while units of a category exist, they are the URLs of
\* that category, and every unit of every earlier category has completed, been
\* counted and had its category's results recorded.
PoolBoundedAndSequential ==
  /\ Cardinality(Running(pipe.units)) <= MAX_WORKERS
  /\ pipe.units # <<>> =>
       /\ pipe.pc = "pool"
       /\ ResultUrls(pipe.units) = pipe.categorized_urls[pipe.c].val
       /\ Len(pipe.results) = pipe.c - 1
       /\ \A i \in 1..(pipe.c - 1) :
            /\ pipe.results[i].key = pipe.categorized_urls[i].key
            /\ Len(pipe.results[i].val) + Len(pipe.errors)
                 >= Len(pipe.categorized_urls[i].val)
       /\ pipe.callback \in {"none", "ok"} =>
            pipe.processed_count =
              Len(DictFlatten(SubSeq(pipe.categorized_urls, 1, pipe.c - 1)))
                + Cardinality(Yielded(pipe.units))

\* five units of the first category are executing and the sixth is queued
PoolBoundedAndSequentialWitness ==
  /\ pipe.pc = "pool"
  /\ pipe.c = 1
  /\ Len(pipe.units) = MAX_WORKERS + 1
  /\ Cardinality(Running(pipe.units)) = MAX_WORKERS
  /\ pipe.units[Len(pipe.units)].state = "queued"

\* the category a categorized URL was placed in
PlacedIn(categorized, u) ==
  categorized[CHOOSE i \in 1..Len(categorized) : InList(u, categorized[i].val)].key

\* C22: the category of a URL depends on its path alone: two URLs with the
\* same path, whatever their scheme and host, are placed in the same category.
CategorizeByPathAlone ==
  cat.pc = "done" =>
    \A i, j \in 1..Len(cat.urls) :
       UrlPath(cat.urls[i]) = UrlPath(cat.urls[j])
         => PlacedIn(cat.result, cat.urls[i]) = PlacedIn(cat.result, cat.urls[j])

\* C23: with no meta description and no generator, the description of a
\* fetched page is the first fragment of the main text with a "." when the
\* fragment has more than 20 characters and "Resource information" when it has
\* 20 or fewer; a meta description takes precedence over the fragment.
DescriptionThresholdTwenty ==
  (pu.pc \in {"probe", "done"} /\ pu.info # NoInfo /\ ~pu.ai_client) =>
    pu.result.description =
      IF Strip(pu.soup.meta) # <<>> THEN Strip(pu.soup.meta)
      ELSE IF Len(FirstSentence(pu.info.main_content)) > 20
        THEN FirstSentence(pu.info.main_content) \o <<".">>
      ELSE T_ResourceInformation

T_GuideReadme ==
  <<"h", "t", "t", "p", "s", ":", "/", "/", "a", ".", "i", "o", "/", "u", "s", "e", "r", "-", "g", "u", "i", "d", "e", "/", "R", "E", "A", "D", "M", "E", ".", "m", "d">>

\* C24: the markdown probe runs only for a fetched URL holding guide, doc, api
\* or reference; the candidates (the URL without trailing slash plus ".md",
\* "/index.md", "/README.md") are probed in that order, each at most once;
\* md_link is the first candidate that answers 200 and no candidate is probed
\* after it; a failing or raising probe is passed over, and md_link stays
\* absent when none succeeds.  The generator is called at most once.
MarkdownProbedInOrder ==
  /\ pu.generator_calls <= 1
  /\ Len(pu.probes) <= Len(MD_EXTENSIONS)
  /\ pu.probes # <<>> => (ProbesMarkdown(pu.url) /\ pu.info # NoInfo)
  /\ \A k \in 1..Len(pu.probes) :
       pu.probes[k] = "200" => (k = Len(pu.probes) /\ pu.pc = "done")
  /\ pu.pc # "done" => pu.result.md_link = <<>>
  /\ (pu.pc = "done" /\ pu.info # NoInfo) =>
       IF ~ProbesMarkdown(pu.url)
         THEN pu.probes = <<>> /\ pu.result.md_link = <<>>
       ELSE IF pu.probes # <<>> /\ pu.probes[Len(pu.probes)] = "200"
         THEN pu.result.md_link =
                RStripSlash(pu.url) \o MD_EXTENSIONS[Len(pu.probes)]
       ELSE Len(pu.probes) = Len(MD_EXTENSIONS) /\ pu.result.md_link = <<>>

\* for https://a.io/user-guide/ the first probe raised, the second answered
\* 404 and the third 200: md_link is https://a.io/user-guide/README.md
MarkdownProbedInOrderWitness ==
  /\ pu.pc = "done"
  /\ pu.url = U_Guide
  /\ pu.probes = <<"exception", "404", "200">>
  /\ pu.result.md_link = T_GuideReadme

\* C27: when the page fetch has failed, process_url returns the default
\* PageResult (the input url, "Page", "Resource information", no md_link)
\* without a call of the generator and without a markdown probe.
FetchFailureGivesDefault ==
  FetchFailed =>
    /\ pu.result = [url |-> pu.url, title |-> T_Page,
                    description |-> T_ResourceInformation, md_link |-> <<>>]
    /\ pu.generator_calls = 0
    /\ pu.probes = <<>>

\* three attempts failed for https://a.io/API, a URL the probe would be run
\* for, with a generator supplied
FetchFailureGivesDefaultWitness ==
  /\ FetchFailed
  /\ ~pu.js
  /\ pu.attempt = MAX_RETRIES
  /\ pu.url = U_API
  /\ pu.ai_client

\* C25: processed_count is incremented once per completed unit, whatever the
\* units and the callback do, a raising callback included: it never exceeds
\* the number of URLs, every fraction handed to the callback lies in (0, 1],
\* and it equals the number of URLs when the run returns.
ProcessedCountedOnce ==
  /\ pipe.processed_count <= Len(pipe.urls)
  /\ pipe.pc = "pool" =>
       pipe.processed_count =
         Len(DictFlatten(SubSeq(pipe.categorized_urls, 1, pipe.c - 1)))
           + Cardinality(Yielded(pipe.units))
  /\ \A n \in 1..Len(pipe.calls) :
       pipe.calls[n].message = "processed" =>
         (0 < pipe.calls[n].processed /\ pipe.calls[n].processed <= pipe.calls[n].total)
  /\ pipe.pc = "done" => pipe.processed_count = Len(pipe.urls)

\* the sum of met over a set of <<url, page>> pairs
RECURSIVE SumMet(_, _)
SumMet(met, pairs) ==
  IF pairs = {} THEN 0
  ELSE LET x == CHOOSE y \in pairs : TRUE
       IN  met[x] + SumMet(met, pairs \ {x})

\* how many units of the URLs in category_urls returned the PageResult r,
\* given the page each unit met
ReturnedBy(p, category_urls, r) ==
  SumMet(p.met,
         {x \in PipePool \X PipePages :
            /\ InList(x[1], category_urls)
            /\ process_url(x[1], p.ai_client, x[2]) = [raised |-> FALSE, result |-> r]})

\* C26: what process_urls_parallel returns depends on the interleaving of the
\* workers only in the order inside a category: the keys are those of
\* categorize_urls in order, and each category holds every PageResult as often
\* as its units, on the pages they met, returned it.
OutcomeIndependentOfInterleaving ==
  pipe.pc = "done" =>
    LET categorized == categorize_urls(pipe.urls)
    IN  /\ Len(pipe.results) = Len(categorized)
        /\ \A i \in 1..Len(pipe.results) :
             /\ pipe.results[i].key = categorized[i].key
             /\ \A x \in PipePool \X PipePages :
                  LET r == process_url(x[1], pipe.ai_client, x[2]).result
                  IN  Count(r, pipe.results[i].val)
                        = ReturnedBy(pipe, categorized[i].val, r)
             /\ \A n \in 1..Len(pipe.results[i].val) :
                  \E x \in PipePool \X PipePages :
                     pipe.results[i].val[n]
                       = process_url(x[1], pipe.ai_client, x[2]).result

\* two units for https://a.io, one on an unreachable page and one on a full
\* page, with the result of the full page recorded first
OutcomeIndependentOfInterleavingWitness ==
  /\ pipe.pc = "done"
  /\ pipe.urls = <<U_Root, U_Root>>
  /\ pipe.met[<<U_Root, PageUnreachable>>] = 1
  /\ pipe.met[<<U_Root, PageFull>>] = 1
  /\ Len(pipe.results) = 1
  /\ Len(pipe.results[1].val) = 2
  /\ pipe.results[1].val[1].title # T_Page
  /\ pipe.results[1].val[2].title = T_Page

====
